---- MODULE Spec2Model ----
(***************************************************************************)
(* The cfor! macro of huonw/cfor: the rewriting of an invocation by the    *)
(* macro's arms, and the control flow of the code the full arm expands to  *)
(* (src/src/lib.rs), run on the loops of the test-suite and the crate docs *)
(* and on bounded families of loops with scripted bodies, alone and in the *)
(* body of another loop.  The naive bad_cfor! of the crate docs is         *)
(* modelled next to it.                                                    *)
(***************************************************************************)
EXTENDS Integers, Sequences, FiniteSets, TLC

\* Bounds of the scripted family of loops.
MaxTick == 3
Lim == 2

\* Literals of the loops in the tests and the docs.
Ten == 10
PowLimit == 128
SumLimit == 20
GuardLimit == 50
SkipAt == 4
XLimit == 10
YLimit == 100
YStep == 10

VARIABLES
    prog,       \* the invocation as written at the call site
    inv,        \* the invocation's clauses while the macro rewrites it
    pc,         \* position in the rewriting, then in the expanded code
    env,        \* the variables the clauses read and write
    _first,     \* lib.rs:193
    _continue,  \* lib.rs:194
    trace,      \* history: the clause executions of this invocation, in order
    run,        \* 1 for the first invocation of the test, 2 for the second
    prev,       \* history: outcome of the first invocation, once the second runs
    stack       \* the enclosing loop, while a loop in its body runs

vars == <<prog, inv, pc, env, _first, _continue, trace, run, prev, stack>>

Exits == {"fall", "continue", "break"}

Scripts == [1..MaxTick -> Exits]

NoScript == [k \in 1..MaxTick |-> "fall"]

\* The variables of the call sites, as declared before the invocation.
Env0 == [i |-> 0, a |-> 0, b |-> 0, tick |-> 0, post |-> 0,
         true_counter |-> 0, inside |-> FALSE,
         x |-> 0, y |-> 0, dx |-> FALSE, dy |-> FALSE, dz |-> TRUE]

None == [none |-> TRUE]

-----------------------------------------------------------------------------
(* The clauses.                                                            *)

\* $init; (lib.rs:191), for the initialisers the call sites write.
ExecInit(kind, e) ==
    CASE kind = "unit"   -> e
      [] kind = "let_i0" -> [e EXCEPT !.i = 0]
      [] kind = "let_i1" -> [e EXCEPT !.i = 1]
      [] kind = "let_ab" -> [e EXCEPT !.a = 0, !.b = 0]
      [] kind = "let_a0" -> [e EXCEPT !.a = 0]
      [] kind = "let_xyz" -> [e EXCEPT !.dx = TRUE, !.dy = TRUE, !.dz = FALSE]
      [] OTHER           -> e

\* $cond (lib.rs:192), for the conditions the call sites write.
EvalCond(kind, e) ==
    CASE kind = "not_false" -> ~FALSE
      [] kind = "false"     -> FALSE
      [] kind = "i_lt_10"   -> e.i < Ten
      [] kind = "i_le_128"  -> e.i <= PowLimit
      [] kind = "ab_lt_20"  -> e.a + e.b < SumLimit
      [] kind = "i_lt_lim"  -> e.i < Lim
      [] kind = "a_lt_lim"  -> e.a < Lim
      [] kind = "xy_lt"     -> e.x < XLimit /\ e.y < YLimit
      [] OTHER              -> FALSE

\* $step (lib.rs:218): the environment after it, and whether it panicked.
ExecStep(kind, e) ==
    CASE kind = "unit"   -> [env |-> e, panic |-> FALSE]
      [] kind = "i_inc"  -> [env |-> [e EXCEPT !.i = @ + 1], panic |-> FALSE]
      [] kind = "i_dbl"  -> [env |-> [e EXCEPT !.i = @ * 2], panic |-> FALSE]
      [] kind = "a_inc"  -> [env |-> [e EXCEPT !.a = @ + 1], panic |-> FALSE]
      [] kind = "ab_inc" -> [env |-> [e EXCEPT !.a = @ + 1, !.b = @ + 1], panic |-> FALSE]
      [] kind = "xy_inc" -> [env |-> [e EXCEPT !.x = @ + 1, !.y = @ + YStep], panic |-> FALSE]
      [] kind = "panic"  -> [env |-> e, panic |-> TRUE]
      [] OTHER           -> [env |-> e, panic |-> FALSE]

\* $body (lib.rs:210): the environment after it and the way it is left.
ExecBody(p, e) ==
    CASE p.body = "tick" ->
           [env |-> [e EXCEPT !.tick = @ + 1], exit |-> "fall"]
      [] p.body = "skip4" ->
           [env |-> e, exit |-> IF e.i = SkipAt THEN "continue" ELSE "fall"]
      [] p.body = "guard_skip4" ->
           IF e.true_counter >= GuardLimit
           THEN [env |-> e, exit |-> "break"]
           ELSE [env |-> [e EXCEPT !.true_counter = @ + 1],
                 exit |-> IF e.i = SkipAt THEN "continue" ELSE "fall"]
      [] p.body = "inside_break" ->
           [env |-> [e EXCEPT !.inside = TRUE], exit |-> "break"]
      [] p.body = "continue" ->
           [env |-> e, exit |-> "continue"]
      [] p.body = "panic" ->
           [env |-> e, exit |-> "panic"]
      [] p.body = "assert_xyz" ->
           [env |-> e,
            exit |-> IF e.dx /\ e.dy = e.dx /\ ~e.dz THEN "fall" ELSE "panic"]
      [] p.body = "script" ->
           IF e.tick >= MaxTick
           THEN [env |-> e, exit |-> "break"]
           ELSE LET x == p.script[e.tick + 1]
                    t == [e EXCEPT !.tick = @ + 1]
                IN  IF x = "fall"
                    THEN [env |-> [t EXCEPT !.post = @ + 1], exit |-> "fall"]
                    ELSE [env |-> t, exit |-> x]
      [] OTHER ->
           [env |-> e, exit |-> "fall"]

\* The number of comma-separated statements or expressions a clause is
\* written with: the fragments `$init: stmt` and `$step: expr` (lib.rs:189)
\* take one, and the token after them must be `;`.
Items(kind) ==
    CASE kind = "absent"  -> 0
      [] kind = "let_xyz" -> 3
      [] kind = "xy_inc"  -> 2
      [] OTHER            -> 1

-----------------------------------------------------------------------------
(* The call sites.                                                         *)

Call(m, i, c, s, b) ==
    [macro |-> m, init |-> i, cond |-> c, step |-> s, body |-> b, script |-> NoScript]

\* test.rs:6-8: cfor!{let mut i = 1; i <= 0b1000_0000; i *= 2; { tick += 1; }}
Smoke1 == Call("cfor", "let_i1", "i_le_128", "i_dbl", "tick")

\* test.rs:13-15: cfor!{let (mut a, mut b) = (0, 0); a + b < 20; { a += 1; b += 1; }; ...}
Smoke2 == Call("cfor", "let_ab", "ab_lt_20", "ab_inc", "tick")

\* test.rs:22-25: cfor!(let i = 0; i < 10; panic!(); { continue })
ContinueUpdates == Call("cfor", "let_i0", "i_lt_10", "panic", "continue")

\* test.rs:31-34: cfor!{;; (); { inside = true; break }}
MissingParts1 == Call("cfor", "absent", "absent", "unit", "inside_break")

\* test.rs:44-46: cfor!{; false; ; { panic!() }}
MissingParts3 == Call("cfor", "absent", "false", "absent", "panic")

\* The loop of the docs that skips i == 4 (lib.rs:145-159), through cfor!,
\* without and with the guard on true_counter.
SkipFour == Call("cfor", "let_i0", "i_lt_10", "i_inc", "skip4")

GuardedSkipFour == Call("cfor", "let_i0", "i_lt_10", "i_inc", "guard_skip4")

\* test.rs:51-55: cfor!(let x = true, let y = x, let z = false; false;; { assert... })
MultiDec == Call("cfor", "let_xyz", "false", "absent", "assert_xyz")

\* test.rs:62: cfor!(; x < 10 && y < 100; x += 1, y += 10; {})
MultiStep == Call("cfor", "absent", "xy_lt", "xy_inc", "empty")

TestPrograms ==
    { Smoke1, Smoke2, ContinueUpdates, MissingParts1, MissingParts3,
      SkipFour, GuardedSkipFour, MultiDec, MultiStep }

\* Loops over i with every combination of omitted clauses and a body that
\* follows a script of fall-through, continue and break.
ScriptPrograms ==
    { [macro |-> "cfor", init |-> i, cond |-> c, step |-> s, body |-> "script",
       script |-> x] :
        i \in {"absent", "unit", "let_i0"},
        c \in {"absent", "false", "i_lt_lim"},
        s \in {"absent", "unit", "i_inc", "panic"},
        x \in Scripts }

\* Loops over i whose body sets tick and post back, runs a loop over a with
\* a scripted body and then falls through, or breaks once i >= 1.
NestBodies == {"nest_fall", "nest_break"}

NestPrograms ==
    { [macro |-> "cfor", init |-> "let_i0", cond |-> "i_lt_lim", step |-> "i_inc",
       body |-> b, script |-> x] :
        b \in NestBodies, x \in Scripts }

\* The cfor! invocation in the body of such a loop.
InnerOf(p) ==
    [macro |-> "cfor", init |-> "let_a0", cond |-> "a_lt_lim", step |-> "a_inc",
     body |-> "script", script |-> p.script]

Programs == TestPrograms \cup ScriptPrograms \cup NestPrograms

\* The second invocation of a test: the same loop with the omitted
\* initialiser written as (), as a while loop, or through bad_cfor!.
WhileOf(p) ==
    [p EXCEPT !.macro = "bad_cfor",
              !.init = IF @ = "absent" THEN "unit" ELSE @,
              !.cond = IF @ = "absent" THEN "not_false" ELSE @,
              !.step = "unit"]

Variants(p) ==
    (IF p.init = "absent" THEN {[p EXCEPT !.init = "unit"]} ELSE {})
    \cup (IF p.step = "absent" THEN {WhileOf(p)} ELSE {})
    \cup (IF p.init # "absent" /\ p.cond # "absent" /\ p.step # "absent"
             /\ p.body \in {"script", "guard_skip4", "tick"}
          THEN {[p EXCEPT !.macro = "bad_cfor"]} ELSE {})

Clauses(p) == [init |-> p.init, cond |-> p.cond, step |-> p.step]

-----------------------------------------------------------------------------
Init ==
    /\ prog \in Programs
    /\ inv = Clauses(prog)
    /\ pc = "expand"
    /\ env = Env0
    /\ _first = FALSE
    /\ _continue = FALSE
    /\ trace = <<>>
    /\ run = 1
    /\ prev = None
    /\ stack = <<>>

-----------------------------------------------------------------------------
(* macro_rules! cfor: the arms, tried in order.                            *)

\* Mutant: the arm drops the condition that follows the omitted initialiser.
ArmNoInit_LosesCond ==
    /\ pc = "expand" /\ prog.macro = "cfor"
    /\ inv.init = "absent"
    /\ inv' = [inv EXCEPT !.init = "unit", !.cond = "absent"]
    /\ UNCHANGED <<prog, pc, env, _first, _continue, trace, run, prev, stack>>

\* (; $($rest: tt)*) => cfor!((); $($rest)*)
ArmNoInit ==
    /\ pc = "expand" /\ prog.macro = "cfor"
    /\ inv.init = "absent"
    /\ inv' = [inv EXCEPT !.init = "unit"]
    /\ UNCHANGED <<prog, pc, env, _first, _continue, trace, run, prev, stack>>

\* Mutant: the omitted condition becomes `false` instead of `!false`.
ArmNoCond_False ==
    /\ pc = "expand" /\ prog.macro = "cfor"
    /\ Items(inv.init) = 1
    /\ inv.cond = "absent"
    /\ inv' = [inv EXCEPT !.cond = "false"]
    /\ UNCHANGED <<prog, pc, env, _first, _continue, trace, run, prev, stack>>

\* ($init: stmt; ; $($rest: tt)*) => cfor!($init; !false; $($rest)*)
ArmNoCond ==
    /\ pc = "expand" /\ prog.macro = "cfor"
    /\ Items(inv.init) = 1
    /\ inv.cond = "absent"
    /\ inv' = [inv EXCEPT !.cond = "not_false"]
    /\ UNCHANGED <<prog, pc, env, _first, _continue, trace, run, prev, stack>>

\* Mutant: the arm passes `!false` on in place of $cond.
ArmNoStep_DropsCond ==
    /\ pc = "expand" /\ prog.macro = "cfor"
    /\ Items(inv.init) = 1
    /\ inv.cond # "absent"
    /\ inv.step = "absent"
    /\ inv' = [inv EXCEPT !.step = "unit", !.cond = "not_false"]
    /\ UNCHANGED <<prog, pc, env, _first, _continue, trace, run, prev, stack>>

\* Mutant: the arm rejects the empty step instead of writing `()` for it.
ArmNoStep_Rejects ==
    /\ pc = "expand" /\ prog.macro = "cfor"
    /\ Items(inv.init) = 1
    /\ inv.cond # "absent"
    /\ inv.step = "absent"
    /\ pc' = "error"
    /\ UNCHANGED <<prog, inv, env, _first, _continue, trace, run, prev, stack>>

\* ($init: stmt; $cond: expr; ; $body: block) => cfor!{$init; $cond; (); $body}
ArmNoStep ==
    /\ pc = "expand" /\ prog.macro = "cfor"
    /\ Items(inv.init) = 1
    /\ inv.cond # "absent"
    /\ inv.step = "absent"
    /\ inv' = [inv EXCEPT !.step = "unit"]
    /\ UNCHANGED <<prog, pc, env, _first, _continue, trace, run, prev, stack>>

\* Mutant: the expansion leaves out `$init;`.
ArmFull_SkipInit ==
    /\ pc = "expand" /\ prog.macro = "cfor"
    /\ Items(inv.init) = 1
    /\ inv.cond # "absent"
    /\ Items(inv.step) = 1
    /\ pc' = "cond"
    /\ UNCHANGED <<prog, inv, env, _first, _continue, trace, run, prev, stack>>

\* ($init: stmt; $cond: expr; $step: expr; $body: block) => { ... }
ArmFull ==
    /\ pc = "expand" /\ prog.macro = "cfor"
    /\ Items(inv.init) = 1
    /\ inv.cond # "absent"
    /\ Items(inv.step) = 1
    /\ pc' = "init"
    /\ UNCHANGED <<prog, inv, env, _first, _continue, trace, run, prev, stack>>

\* No arm matches: after `$init: stmt` or `$step: expr` every arm expects
\* `;`, so a `,` there ends the expansion in a compile error.
NoRule ==
    /\ pc = "expand" /\ prog.macro = "cfor"
    /\ inv.init # "absent"
    /\ \/ Items(inv.init) > 1
       \/ inv.cond # "absent" /\ Items(inv.step) > 1
    /\ pc' = "error"
    /\ UNCHANGED <<prog, inv, env, _first, _continue, trace, run, prev, stack>>

-----------------------------------------------------------------------------
(* The expansion of the full arm, lib.rs:190-220.                          *)

\* $init;
InitStmt ==
    /\ pc = "init"
    /\ env' = ExecInit(inv.init, env)
    /\ trace' = Append(trace, "init")
    /\ pc' = "cond"
    /\ UNCHANGED <<prog, inv, _first, _continue, run, prev, stack>>

\* Mutant: `while !$cond`.
WhileCond_Negated ==
    /\ pc = "cond"
    /\ IF EvalCond(inv.cond, env)
       THEN /\ trace' = Append(trace, "cond_true")
            /\ pc' = "done"
       ELSE /\ trace' = Append(trace, "cond_false")
            /\ pc' = "flags"
    /\ UNCHANGED <<prog, inv, env, _first, _continue, run, prev, stack>>

\* while $cond {
WhileCond ==
    /\ pc = "cond"
    /\ IF EvalCond(inv.cond, env)
       THEN /\ trace' = Append(trace, "cond_true")
            /\ pc' = "flags"
       ELSE /\ trace' = Append(trace, "cond_false")
            /\ pc' = "done"
    /\ UNCHANGED <<prog, inv, env, _first, _continue, run, prev, stack>>

\* Mutant: the flags are declared once, outside the `while`, and not set
\* again in the iterations that follow.
LetFlags_NoReset ==
    /\ pc = "flags"
    /\ _first' = IF Len(trace) = 2 THEN TRUE ELSE _first
    /\ _continue' = IF Len(trace) = 2 THEN FALSE ELSE _continue
    /\ pc' = "loop"
    /\ UNCHANGED <<prog, inv, env, trace, run, prev, stack>>

\* let mut _first = true; let mut _continue = false;
LetFlags ==
    /\ pc = "flags"
    /\ _first' = TRUE
    /\ _continue' = FALSE
    /\ pc' = "loop"
    /\ UNCHANGED <<prog, inv, env, trace, run, prev, stack>>

\* Mutant: `if !_first { break }`, without `_continue = true`.
LoopTop_NoContinueFlag ==
    /\ pc = "loop"
    /\ pc' = IF ~_first THEN "after" ELSE "first"
    /\ UNCHANGED <<prog, inv, env, _first, _continue, trace, run, prev, stack>>

\* loop { if !_first { _continue = true; break }
LoopTop ==
    /\ pc = "loop"
    /\ IF ~_first
       THEN /\ _continue' = TRUE
            /\ pc' = "after"
       ELSE /\ pc' = "first"
            /\ UNCHANGED _continue
    /\ UNCHANGED <<prog, inv, env, _first, trace, run, prev, stack>>

\* Mutant: `_first = false;` is left out.
ClearFirst_Forgets ==
    /\ pc = "first"
    /\ pc' = "body"
    /\ UNCHANGED <<prog, inv, env, _first, _continue, trace, run, prev, stack>>

\* _first = false;
ClearFirst ==
    /\ pc = "first"
    /\ _first' = FALSE
    /\ pc' = "body"
    /\ UNCHANGED <<prog, inv, env, _continue, trace, run, prev, stack>>

\* Mutant: the body sits directly in the `while`, so `continue` goes to $cond.
Body_ContinueToWhile ==
    /\ pc = "body"
    /\ prog.body \notin NestBodies
    /\ LET r == ExecBody(prog, env) IN
        /\ env' = r.env
        /\ trace' = Append(trace, "body_" \o r.exit)
        /\ pc' = CASE r.exit = "break"    -> "after"
                   [] r.exit = "panic"    -> "panicked"
                   [] r.exit = "continue" -> "cond"
                   [] OTHER               -> "loop"
    /\ UNCHANGED <<prog, inv, _first, _continue, run, prev, stack>>

\* Mutant: `continue` leaves the inner loop the way `break` does.
Body_ContinueLeaves ==
    /\ pc = "body"
    /\ prog.body \notin NestBodies
    /\ LET r == ExecBody(prog, env) IN
        /\ env' = r.env
        /\ trace' = Append(trace, "body_" \o r.exit)
        /\ pc' = CASE r.exit \in {"break", "continue"} -> "after"
                   [] r.exit = "panic"                 -> "panicked"
                   [] OTHER                            -> "loop"
    /\ UNCHANGED <<prog, inv, _first, _continue, run, prev, stack>>

\* $body }: falling through and `continue` both go to the top of the inner
\* loop, `break` leaves the inner loop.
Body ==
    /\ pc = "body"
    /\ prog.body \notin NestBodies
    /\ LET r == ExecBody(prog, env) IN
        /\ env' = r.env
        /\ trace' = Append(trace, "body_" \o r.exit)
        /\ pc' = CASE r.exit = "break" -> "after"
                   [] r.exit = "panic" -> "panicked"
                   [] OTHER            -> "loop"
    /\ UNCHANGED <<prog, inv, _first, _continue, run, prev, stack>>

\* Mutant: the `break` is not propagated to the `while`.
AfterLoop_NoPropagate ==
    /\ pc = "after"
    /\ pc' = "step"
    /\ UNCHANGED <<prog, inv, env, _first, _continue, trace, run, prev, stack>>

\* Mutant: `if _continue { break }`.
AfterLoop_Inverted ==
    /\ pc = "after"
    /\ pc' = IF _continue THEN "done" ELSE "step"
    /\ UNCHANGED <<prog, inv, env, _first, _continue, trace, run, prev, stack>>

\* $body is { tick = 0; post = 0; cfor!(...); ... }: the invocation in the body
\* declares its own _first and _continue in its own while (lib.rs:192-194);
\* those of the enclosing loop stay as they are, out of its reach.
EnterNested ==
    /\ pc = "body"
    /\ prog.body \in NestBodies
    /\ stack = <<>>
    /\ stack' = <<[prog |-> prog, inv |-> inv, _first |-> _first,
                   _continue |-> _continue, trace |-> trace]>>
    /\ prog' = InnerOf(prog)
    /\ inv' = Clauses(InnerOf(prog))
    /\ env' = [env EXCEPT !.tick = 0, !.post = 0]
    /\ trace' = <<>>
    /\ pc' = "expand"
    /\ UNCHANGED <<_first, _continue, run, prev>>

\* The way the enclosing body is left after the loop in it.
NestExit(p, e) ==
    IF p.body = "nest_break" /\ e.i >= 1 THEN "break" ELSE "fall"

\* Mutant: the loop in the body and the enclosing loop share one _first and
\* one _continue.
LeaveNested_SharedFlags ==
    /\ pc = "done"
    /\ stack # <<>>
    /\ LET f == Head(stack)
           x == NestExit(f.prog, env) IN
        /\ prog' = f.prog
        /\ inv' = f.inv
        /\ trace' = Append(f.trace, "body_" \o x)
        /\ pc' = IF x = "break" THEN "after" ELSE "loop"
    /\ stack' = <<>>
    /\ UNCHANGED <<env, _first, _continue, run, prev>>

\* The loop in the body has ended: the enclosing body goes on with the flags
\* of the enclosing loop, and is left by falling through or by `break`.
LeaveNested ==
    /\ pc = "done"
    /\ stack # <<>>
    /\ LET f == Head(stack)
           x == NestExit(f.prog, env) IN
        /\ prog' = f.prog
        /\ inv' = f.inv
        /\ _first' = f._first
        /\ _continue' = f._continue
        /\ trace' = Append(f.trace, "body_" \o x)
        /\ pc' = IF x = "break" THEN "after" ELSE "loop"
    /\ stack' = <<>>
    /\ UNCHANGED <<env, run, prev>>

\* if !_continue { break }
AfterLoop ==
    /\ pc = "after"
    /\ pc' = IF ~_continue THEN "done" ELSE "step"
    /\ UNCHANGED <<prog, inv, env, _first, _continue, trace, run, prev, stack>>

\* $step }
Step ==
    /\ pc = "step"
    /\ LET r == ExecStep(inv.step, env) IN
        /\ env' = r.env
        /\ trace' = Append(trace, "step")
        /\ pc' = IF r.panic THEN "panicked" ELSE "cond"
    /\ UNCHANGED <<prog, inv, _first, _continue, run, prev, stack>>

-----------------------------------------------------------------------------
(* macro_rules! bad_cfor of the crate docs, lib.rs:129-140.                *)

\* ($init: stmt; $cond: expr; $step: expr; $body: block) => { ... }
BadArm ==
    /\ pc = "expand" /\ prog.macro = "bad_cfor"
    /\ pc' = "bad_init"
    /\ UNCHANGED <<prog, inv, env, _first, _continue, trace, run, prev, stack>>

\* $init;
BadInit ==
    /\ pc = "bad_init"
    /\ env' = ExecInit(inv.init, env)
    /\ trace' = Append(trace, "init")
    /\ pc' = "bad_cond"
    /\ UNCHANGED <<prog, inv, _first, _continue, run, prev, stack>>

\* while $cond {
BadCond ==
    /\ pc = "bad_cond"
    /\ IF EvalCond(inv.cond, env)
       THEN /\ trace' = Append(trace, "cond_true")
            /\ pc' = "bad_body"
       ELSE /\ trace' = Append(trace, "cond_false")
            /\ pc' = "done"
    /\ UNCHANGED <<prog, inv, env, _first, _continue, run, prev, stack>>

\* Mutant: `continue` reaches $step, as in the cfor expansion.
BadBody_ContinueToStep ==
    /\ pc = "bad_body"
    /\ LET r == ExecBody(prog, env) IN
        /\ env' = r.env
        /\ trace' = Append(trace, "body_" \o r.exit)
        /\ pc' = CASE r.exit = "break" -> "done"
                   [] r.exit = "panic" -> "panicked"
                   [] OTHER            -> "bad_step"
    /\ UNCHANGED <<prog, inv, _first, _continue, run, prev, stack>>

\* $body; : `continue` goes to the condition of the while, `break` leaves it.
BadBody ==
    /\ pc = "bad_body"
    /\ LET r == ExecBody(prog, env) IN
        /\ env' = r.env
        /\ trace' = Append(trace, "body_" \o r.exit)
        /\ pc' = CASE r.exit = "break"    -> "done"
                   [] r.exit = "panic"    -> "panicked"
                   [] r.exit = "continue" -> "bad_cond"
                   [] OTHER               -> "bad_step"
    /\ UNCHANGED <<prog, inv, _first, _continue, run, prev, stack>>

\* $step; }
BadStep ==
    /\ pc = "bad_step"
    /\ LET r == ExecStep(inv.step, env) IN
        /\ env' = r.env
        /\ trace' = Append(trace, "step")
        /\ pc' = IF r.panic THEN "panicked" ELSE "bad_cond"
    /\ UNCHANGED <<prog, inv, _first, _continue, run, prev, stack>>

-----------------------------------------------------------------------------
(* A test that goes on to a second invocation once the first has ended,    *)
(* with its variables set back (test.rs:12, test.rs:37).                   *)
NextInvocation ==
    /\ pc = "done"
    /\ run = 1
    /\ stack = <<>>
    /\ \E q \in Variants(prog) :
        /\ prog' = q
        /\ inv' = Clauses(q)
    /\ prev' = [prog |-> prog, trace |-> trace, env |-> env]
    /\ pc' = "expand"
    /\ env' = Env0
    /\ trace' = <<>>
    /\ run' = 2
    /\ UNCHANGED <<_first, _continue, stack>>

Next ==
    \/ ArmNoInit \/ ArmNoCond \/ ArmNoStep \/ ArmFull \/ NoRule
    \/ InitStmt \/ WhileCond \/ LetFlags \/ LoopTop \/ ClearFirst
    \/ Body \/ EnterNested \/ LeaveNested \/ AfterLoop \/ Step
    \/ BadArm \/ BadInit \/ BadCond \/ BadBody \/ BadStep
    \/ NextInvocation

Spec == Init /\ [][Next]_vars

\* A run never stops while a step of the program is left to take.
FairSpec == Spec /\ WF_vars(Next)

-----------------------------------------------------------------------------
(* Reading the history.                                                    *)

IsCfor == prog.macro = "cfor"

Conds == {"cond_true", "cond_false"}

Completed == {"body_fall", "body_continue"}

Bodies == {"body_fall", "body_continue", "body_break", "body_panic"}

Count(t, evs) == Cardinality({k \in 1..Len(t) : t[k] \in evs})

Last(t) == t[Len(t)]

\* Control is between a completed body and the step it leads to.
HeadingToStep ==
    /\ pc \in {"loop", "after", "step"}
    /\ pc = "loop" => ~_first
    /\ pc = "after" => _continue

-----------------------------------------------------------------------------
(* The claims.                                                             *)

\* C1: in the cfor expansion a body left by `continue` runs none of the rest
\* of the body, and is followed by exactly one execution of the step and then
\* by the next evaluation of the condition, in every iteration.
C1_ContinueRunsStep ==
    IsCfor =>
        /\ \A k \in 1..Len(trace) :
            trace[k] = "body_continue" =>
                /\ k = Len(trace) => HeadingToStep
                /\ k + 1 <= Len(trace) => trace[k + 1] = "step"
                /\ k + 2 <= Len(trace) => trace[k + 2] \in Conds
        /\ prog.body = "script" => env.post = Count(trace, {"body_fall"})

C1_Witness ==
    /\ IsCfor /\ inv.step = "i_inc" /\ prog.body = "script"
    /\ \E k \in 4..Len(trace) :
        /\ trace[k] = "body_continue"
        /\ k + 2 <= Len(trace)
        /\ trace[k + 1] = "step"
        /\ trace[k + 2] = "cond_true"
        /\ env.post < env.tick

\* C2: in the cfor expansion a body left by `break` ends the loop: no step,
\* no condition and no body is executed after it.
C2_BreakEndsLoop ==
    IsCfor =>
        \A k \in 1..Len(trace) :
            trace[k] = "body_break" =>
                /\ k = Len(trace)
                /\ pc \in {"after", "done"}
                /\ pc = "after" => ~_continue

C2_Witness ==
    /\ IsCfor /\ inv.step = "i_inc" /\ pc = "done"
    /\ trace = <<"init", "cond_true", "body_break">>
    /\ env.i = 0

\* C3: whatever clauses are omitted, the initialiser is executed exactly once
\* and before the first evaluation of the condition, also when the condition
\* is false at once; until the expansion and where it fails nothing is
\* executed.
C3_InitOnceFirst ==
    IsCfor =>
        IF pc \in {"expand", "error", "init"}
        THEN trace = <<>>
        ELSE /\ trace # <<>>
             /\ trace[1] = "init"
             /\ Count(trace, {"init"}) = 1

C3_Witness ==
    /\ IsCfor /\ prog.body = "script" /\ prog.init = "absent" /\ prog.cond = "false" /\ prog.step = "absent"
    /\ pc = "done"
    /\ trace = <<"init", "cond_false">>

\* C4: the step is executed exactly once after every body that fell through
\* or continued, and never otherwise; it is followed by the next evaluation
\* of the condition, so that two consecutive bodies are separated by one step
\* and one evaluation of the condition.
C4_StepOncePerIteration ==
    IsCfor =>
        \A k \in 1..Len(trace) :
            /\ trace[k] \in Completed =>
                /\ k = Len(trace) => HeadingToStep
                /\ k + 1 <= Len(trace) => trace[k + 1] = "step"
            /\ trace[k] = "step" =>
                /\ k > 1 /\ trace[k - 1] \in Completed
                /\ k = Len(trace) => pc \in {"cond", "panicked"}
                /\ k + 1 <= Len(trace) => trace[k + 1] \in Conds
            /\ (trace[k] \in Bodies /\ \E j \in (k + 1)..Len(trace) : trace[j] \in Bodies) =>
                /\ trace[k + 1] = "step"
                /\ trace[k + 2] = "cond_true"
                /\ trace[k + 3] \in Bodies

C4_Witness ==
    /\ IsCfor /\ inv.step = "i_inc" /\ pc = "done"
    /\ Count(trace, {"body_fall"}) >= 1
    /\ Count(trace, {"body_continue"}) >= 1
    /\ Last(trace) = "body_break"
    /\ Count(trace, {"step"}) = 2
    /\ env.i = 2

\* C5: the loop (i = 0; i < 10; i += 1) whose body continues at i == 4
\* terminates, and ends with i == 10.
C5_SkipFourTerminates ==
    (prog = SkipFour) ~> (prog = SkipFour /\ pc = "done" /\ env.i = Ten)

C5_Witness ==
    /\ prog = SkipFour /\ pc = "done" /\ env.i = Ten
    /\ Count(trace, {"body_continue"}) = 1
    /\ Count(trace, {"step"}) = Ten

\* C6: a loop whose condition is omitted evaluates its condition to true
\* every time, and ends only by a `break` of its body, which has then run at
\* least once.
C6_NoCondEndsByBreak ==
    (IsCfor /\ prog.cond = "absent") =>
        /\ Count(trace, {"cond_false"}) = 0
        /\ pc = "cond" => EvalCond(inv.cond, env)
        /\ pc = "done" =>
            /\ Count(trace, Bodies) >= 1
            /\ Last(trace) = "body_break"

C6_Witness ==
    /\ IsCfor /\ prog.cond = "absent" /\ prog.step = "i_inc"
    /\ pc = "done"
    /\ Count(trace, {"cond_true"}) >= 3
    /\ Last(trace) = "body_break"

CondBody(t) == SelectSeq(t, LAMBDA ev : ev \in Conds \cup Bodies)

IsPrefix(t, u) == Len(t) <= Len(u) /\ SubSeq(u, 1, Len(t)) = t

\* The second invocation is the while loop of a first one without step.
IsWhileRun ==
    /\ run = 2
    /\ prev.prog.step = "absent"
    /\ prog = WhileOf(prev.prog)

\* C7: a cfor loop without step and the while loop with the same condition
\* and body evaluate the condition and execute the body in the same order,
\* and leave the same values, whatever the body does.
C7_NoStepIsWhile ==
    IsWhileRun =>
        /\ IsPrefix(CondBody(trace), CondBody(prev.trace))
        /\ pc # "panicked"
        /\ pc = "done" =>
            /\ CondBody(trace) = CondBody(prev.trace)
            /\ env = prev.env

C7_Witness ==
    /\ IsWhileRun /\ pc = "done"
    /\ Count(trace, {"body_continue"}) >= 1
    /\ Count(trace, {"body_fall"}) >= 1
    /\ Last(trace) = "body_break"
    /\ Count(prev.trace, {"step"}) >= 2

\* The second invocation is the first one with () for its omitted initialiser.
IsUnitInitRun ==
    /\ run = 2
    /\ prev.prog.init = "absent"
    /\ prog = [prev.prog EXCEPT !.init = "unit"]

\* C8: a loop without initialiser and the same loop with the initialiser ()
\* execute the same clauses in the same order and leave the same values.
C8_NoInitIsUnit ==
    IsUnitInitRun =>
        /\ IsPrefix(trace, prev.trace)
        /\ pc # "panicked"
        /\ pc = "done" =>
            /\ trace = prev.trace
            /\ env = prev.env

C8_Witness ==
    /\ IsUnitInitRun /\ pc = "done"
    /\ prog.cond = "i_lt_lim" /\ prog.step = "i_inc"
    /\ Count(trace, {"body_continue"}) >= 1
    /\ Last(trace) = "cond_false"
    /\ env.i = Lim

\* C9: the body is entered only right after the condition evaluated to true;
\* a condition that evaluates to false ends the loop, and when it does so at
\* its first evaluation nothing but the initialiser has been executed.
C9_BodyOnlyAfterTrue ==
    IsCfor =>
        /\ \A k \in 1..Len(trace) :
            /\ trace[k] \in Bodies => k > 1 /\ trace[k - 1] = "cond_true"
            /\ trace[k] = "cond_false" => k = Len(trace) /\ pc = "done"
        /\ pc \in {"flags", "first", "body"} => Last(trace) = "cond_true"
        /\ (Len(trace) >= 2 /\ trace[2] = "cond_false") =>
            /\ trace = <<"init", "cond_false">>
            /\ env = ExecInit(inv.init, Env0)

C9_Witness ==
    /\ prog = MissingParts3 /\ pc = "done"
    /\ trace = <<"init", "cond_false">>
    /\ env = Env0

RECURSIVE Pow2(_)
Pow2(n) == IF n = 0 THEN 1 ELSE 2 * Pow2(n - 1)

\* C10: a body that neither breaks nor continues runs once for each state in
\* which the condition holds: 8 times, for i = 1, 2, 4, ..., 128, in the first
\* loop of smoketest, and 10 times in the second.
C10_SmoketestCounts ==
    /\ prog = Smoke1 =>
        /\ pc = "body" => env.tick < 8 /\ env.i = Pow2(env.tick)
        /\ pc = "done" => env.tick = 8 /\ Count(trace, Bodies) = 8
    /\ prog = Smoke2 =>
        /\ pc = "body" => env.tick < 10 /\ env.a = env.tick /\ env.b = env.tick
        /\ pc = "done" => env.tick = 10 /\ Count(trace, Bodies) = 10
    /\ (IsCfor /\ pc \in {"cond", "done"} /\ Count(trace, {"body_continue", "body_break"}) = 0) =>
        Count(trace, {"body_fall"}) = Count(trace, {"cond_true"})

C10_Witness ==
    /\ prog = Smoke1 /\ pc = "done"
    /\ env.tick = 8 /\ env.i = 2 * PowLimit

\* C11: the loop of multi_step, whose step is `x += 1, y += 10`, expands and
\* runs both expressions once per iteration, ending with x == 10 and y == 100.
C11_MultiStepRuns ==
    prog = MultiStep =>
        /\ pc # "error"
        /\ pc = "done" => env.x = XLimit /\ env.y = YLimit

\* C12: the loop of multi_dec, whose initialiser is `let x = true, let y = x,
\* let z = false`, expands and binds the three in order, so that after the
\* initialiser x == true, y == x and z == false.
C12_MultiDecBinds ==
    prog = MultiDec =>
        /\ pc # "error"
        /\ pc \notin {"expand", "init"} => env.dx /\ env.dy = env.dx /\ ~env.dz

Simple(p) == Items(p.init) <= 1 /\ Items(p.step) <= 1

Defaulted(p) ==
    [init |-> IF p.init = "absent" THEN "unit" ELSE p.init,
     cond |-> IF p.cond = "absent" THEN "not_false" ELSE p.cond,
     step |-> IF p.step = "absent" THEN "unit" ELSE p.step]

C14_BodyOncePerIteration ==
    IsCfor =>
        /\ Count(trace, Bodies) <= Count(trace, {"cond_true"})
        /\ pc \in {"first", "body"} =>
            /\ _first <=> pc = "first"
            /\ Count(trace, Bodies) = Count(trace, {"cond_true"}) - 1
        /\ (pc = "loop" /\ ~_first) =>
            /\ Last(trace) \in Completed
            /\ Count(trace, Bodies) = Count(trace, {"cond_true"})

C14_Witness ==
    /\ IsCfor /\ pc = "after" /\ _continue
    /\ Last(trace) = "body_continue"
    /\ Count(trace, Bodies) = 2
    /\ Count(trace, {"cond_true"}) = 2

\* The second invocation is the loop of the docs through bad_cfor!.
IsBadSkipFour ==
    /\ run = 2
    /\ prev.prog = GuardedSkipFour
    /\ prog = [GuardedSkipFour EXCEPT !.macro = "bad_cfor"]

\* C15: in bad_cfor! a body left by `continue` is followed by the condition
\* and not by the step; the loop of the docs never gets past i == 4 through
\* it and ends by the break of its guard, where through cfor! it ends with
\* i == 10.
C15_NaiveSkipsStep ==
    /\ prog.macro = "bad_cfor" =>
        \A k \in 1..Len(trace) :
            trace[k] = "body_continue" =>
                /\ k = Len(trace) => pc = "bad_cond"
                /\ k + 1 <= Len(trace) => trace[k + 1] \in Conds
    /\ IsBadSkipFour =>
        /\ env.i <= SkipAt
        /\ prev.env.i = Ten
        /\ Last(prev.trace) = "cond_false"
        /\ pc = "done" =>
            /\ env.i = SkipAt
            /\ env.true_counter = GuardLimit
            /\ Last(trace) = "body_break"
            /\ CondBody(trace) # CondBody(prev.trace)

C15_Witness ==
    /\ IsBadSkipFour /\ pc = "done"
    /\ env.i = SkipAt /\ prev.env.i = Ten
    /\ Count(trace, {"body_continue"}) = GuardLimit - SkipAt
    /\ Count(trace, {"step"}) = SkipAt

\* C17: a loop in the body of another runs with flags of its own: while it
\* runs and after it has ended, by its condition or by a `break` in its body,
\* _first and _continue of the enclosing loop are as the enclosing loop left
\* them, so the enclosing body goes on, reaches the step when it falls through
\* and leaves the enclosing loop when it breaks.
C17_NestedFlagsApart ==
    /\ stack # <<>> =>
        /\ ~stack[1]._first
        /\ ~stack[1]._continue
        /\ stack[1].prog.body \in NestBodies
        /\ Last(stack[1].trace) = "cond_true"
    /\ (IsCfor /\ prog.body \in NestBodies /\ stack = <<>>) =>
        /\ (pc = "loop" /\ Last(trace) = "body_fall") => ~_first /\ ~_continue
        /\ (pc = "after" /\ Last(trace) = "body_break") => ~_first /\ ~_continue
        /\ (pc = "done" /\ prog.body = "nest_fall") =>
            /\ Last(trace) = "cond_false"
            /\ Count(trace, {"step"}) = Lim
            /\ env.i = Lim
        /\ (pc = "done" /\ prog.body = "nest_break") =>
            /\ Last(trace) = "body_break"
            /\ Count(trace, {"step"}) = 1
            /\ env.i = 1

C17_Witness ==
    /\ IsCfor /\ prog.body = "nest_fall" /\ stack = <<>>
    /\ prog.script[1] = "continue" /\ prog.script[2] = "break"
    /\ pc = "done"
    /\ env.i = Lim /\ env.a = 1 /\ env.tick = 2

\* What the flags are at the test after the inner loop, and at its first pass.
FlagsAtTest ==
    IsCfor =>
        /\ pc = "after" =>
            /\ ~_first
            /\ _continue <=> Last(trace) \in Completed
            /\ ~_continue <=> Last(trace) = "body_break"
        /\ pc \in {"loop", "first"} /\ Last(trace) = "cond_true" =>
            _first /\ ~_continue

\* Outside `let mut _first = true; let mut _continue = false;` a step of one
\* loop changes _first only from true to false and _continue only from false
\* to true.
FlagsChangeOnce ==
    (IsCfor /\ pc # "flags" /\ stack' = stack) =>
        /\ _first' # _first => _first /\ pc = "first"
        /\ _continue' # _continue => ~_continue /\ pc = "loop"

\* C18: at `if !_continue` _first is false and _continue is true exactly when
\* the body did not break; every iteration starts with _first true and
\* _continue false, and changes each of them at most once.
C18_FlagInvariant == [](FlagsAtTest) /\ [][FlagsChangeOnce]_vars

C18_Witness ==
    /\ IsCfor /\ pc = "after" /\ ~_first /\ ~_continue
    /\ Last(trace) = "body_break"
    /\ Count(trace, Completed) >= 2

====
